---- MODULE Spec2Model ----
(***************************************************************************)
(* The library-catalog GraphQL server (the revision with authentication    *)
(* and the bookAdded subscription): the document collections, the          *)
(* per-request context builder, the authorization guard and the resolvers. *)
(* Every await of a resolver is a separate step, so that concurrently      *)
(* served operations interleave exactly at the points where the code       *)
(* suspends.                                                               *)
(***************************************************************************)
EXTENDS Integers, Sequences, FiniteSets, TLC

\* ---------------------------------------------------------------- bounds
\* Operations served concurrently.
MaxReq == 2
\* Documents (system-assigned identities) created in one run.
MaxDocs == 3
\* Subscribers of BOOK_ADDED.
MaxSubs == 1

Req == 1..MaxReq
Subs == 1..MaxSubs

\* ------------------------------------------------------------ JS values
\* null / undefined.
Null == 0
\* An absent document (findOne, findById and findOneAndUpdate resolve to null).
NullDoc == [id |-> Null]

\* Strings whose length or emptiness the code inspects are sequences of
\* characters; strings only compared for equality are TLA+ strings.
Ab == <<"a", "b">>
Ada == <<"a", "d", "a">>
Fantasy == <<"f", "a", "n", "t", "a", "s", "y">>
Hobbit == <<"H", "o", "b", "b", "i", "t">>
Empty == <<>>

\* The names the server file binds from "apollo-server".
Imported == {"ApolloServer", "gql", "PubSub"}

\* process.env.JWT_SECRET.
JWT_SECRET == "JWT_SECRET"

\* `throw new <cls>(message, extensions)`: evaluating an identifier that is
\* not bound raises a ReferenceError before any error object is constructed.
ThrowNew(cls, ext) ==
    IF cls \in Imported
    THEN [status |-> "error", error |-> cls, invalidArgs |-> ext, value |-> NullDoc]
    ELSE [status |-> "error", error |-> "ReferenceError", invalidArgs |-> NullDoc,
          value |-> NullDoc]

\* A rejection that propagates as it is.
Rethrow(cls) ==
    [status |-> "error", error |-> cls, invalidArgs |-> NullDoc, value |-> NullDoc]

Ok(v) == [status |-> "ok", error |-> "", invalidArgs |-> NullDoc, value |-> v]

Pending == [status |-> "pending", error |-> "", invalidArgs |-> NullDoc, value |-> NullDoc]

\* ------------------------------------------------------------ the tokens
\* jwt.sign(payload, secret).
JwtSign(payload, secret) ==
    [username |-> payload.username, id |-> payload.id, sig |-> secret]

\* jwt.verify(token, secret) returns the payload of a well-formed token signed
\* with the secret and throws a JsonWebTokenError for any other.
JwtVerifies(token, secret) == "sig" \in DOMAIN token /\ token.sig = secret

\* A string that is no token, a token signed with another secret, and a token
\* of this secret whose id is the id of no User document.
Garbage == [malformed |-> TRUE]
Forged == [username |-> Ada, id |-> 1, sig |-> "other secret"]
Foreign == [username |-> Ada, id |-> MaxDocs + 1, sig |-> JWT_SECRET]

\* ----------------------------------------------------------- the header
\* An Authorization header is its first seven characters and the rest
\* (auth.substring(7)); present is false when the request has no such header.
LowerChar(c) ==
    CASE c = "B" -> "b"
      [] c = "E" -> "e"
      [] c = "A" -> "a"
      [] c = "R" -> "r"
      [] OTHER -> c

ToLowerCase(s) == [i \in DOMAIN s |-> LowerChar(s[i])]

StartsWith(s, prefix) ==
    Len(s) >= Len(prefix) /\ SubSeq(s, 1, Len(prefix)) = prefix

BearerPrefix == <<"b", "e", "a", "r", "e", "r", " ">>

NoHeader == [present |-> FALSE, head |-> Empty, rest |-> Garbage]

VARIABLES
    users,        \* the User collection
    authors,      \* the Author collection
    books,        \* the Book collection
    req,          \* the operations being served, one record per slot
    nextId,       \* the next system-assigned identity
    issued,       \* the tokens login has returned to clients
    subscribers,  \* the clients iterating BOOK_ADDED
    delivered     \* the events each subscriber has received

vars == <<users, authors, books, req, nextId, issued, subscribers, delivered>>

\* ------------------------------------------------------------ the models
\* models/user.js: the options each path of the User schema is declared with.
UserSchema ==
    [username |-> [required |-> TRUE, unqiue |-> TRUE, minlength |-> 3],
     favouriteGenre |-> [required |-> TRUE, minLength |-> 3]]

\* mongoose's validators read the options "required" and "minlength";
\* mongoose-unique-validator (schema.plugin(uniqueValidator)) validates the
\* paths declared with the option "unique". Any other key declares nothing.
\* The inputs below are either empty or at least three characters long, so
\* that the outcome does not depend on how a release reads "minLength".
RequiredOk(opts, v) ==
    ("required" \in DOMAIN opts /\ opts.required) => Len(v) > 0

MinlengthOk(opts, v) ==
    ("minlength" \in DOMAIN opts) => Len(v) >= opts.minlength

UniqueOk(opts, coll, path, v) ==
    ("unique" \in DOMAIN opts /\ opts.unique) => ~(\E d \in coll : d[path] = v)

\* user.save() validates the document against the schema.
UserValidates(u) ==
    \A path \in DOMAIN UserSchema :
        /\ RequiredOk(UserSchema[path], u[path])
        /\ MinlengthOk(UserSchema[path], u[path])
        /\ UniqueOk(UserSchema[path], users, path, u[path])

\* models/author.js: the name is unique across the collection, a violation
\* is a validation failure.
AuthorValidates(a) == ~(\E d \in authors : d.name = a.name)

\* models/book.js: the title and the author reference are required.
BookValidates(b) == Len(b.title) > 0 /\ b.author # Null

\* Model.findById(id).
FindById(coll, id) ==
    IF \E d \in coll : d.id = id THEN CHOOSE d \in coll : d.id = id ELSE NullDoc

\* Model.findOne(filter) resolves to one of the matching documents (the
\* store promises no order among several), or to null when none matches.
FindOne(matching) == IF matching = {} THEN {NullDoc} ELSE matching

\* A count that drops the filter.
BookCountOfAll(root) == Cardinality(books)

\* Author.bookCount: Book.find({ author: root }).length.
BookCount(root) == Cardinality({b \in books : b.author = root.id})

\* ---------------------------------------------------------- the context
Headers ==
    {NoHeader}
    \cup {[present |-> TRUE, head |-> <<"B", "a", "s", "i", "c", " ">>, rest |-> Garbage],
          [present |-> TRUE, head |-> <<"B", "e", "a", "r", "e", "r">>, rest |-> Garbage]}
    \cup {[present |-> TRUE, head |-> <<"b", "e", "a", "r", "e", "r", " ">>, rest |-> Garbage],
          [present |-> TRUE, head |-> <<"B", "E", "A", "R", "E", "R", " ">>, rest |-> Forged],
          [present |-> TRUE, head |-> <<"B", "E", "A", "R", "E", "R", " ">>, rest |-> Foreign]}
    \cup {[present |-> TRUE, head |-> <<"B", "e", "a", "r", "e", "r", " ">>, rest |-> t] :
            t \in issued}

\* auth && auth.toLowerCase().startsWith("bearer ")
IsBearer(auth) ==
    auth.present /\ Len(auth.head) > 0
    /\ StartsWith(ToLowerCase(auth.head), BearerPrefix)

\* A context function that reads decodedToken.id whether or not a token
\* was decoded.
ContextThrowsWithoutToken(auth) == ~(IsBearer(auth) /\ JwtVerifies(auth.rest, JWT_SECRET))

\* The context function throws what jwt.verify throws.
ContextThrows(auth) == IsBearer(auth) /\ ~JwtVerifies(auth.rest, JWT_SECRET)

\* The currentUser of the context the function returns; a function that
\* returns nothing leaves the server with an empty context.
ContextUser(auth) ==
    IF IsBearer(auth) THEN FindById(users, auth.rest.id) ELSE NullDoc

\* ------------------------------------------------------- the operations
NoCall == [op |-> "none"]

Titles == {Empty, Hobbit}
\* Books are added for one author name; editAuthor also names an author no
\* Book was added for.
BookAuthors == {"Tolkien"}
AuthorNames == BookAuthors \cup {"Rowling"}

Calls ==
    {[op |-> "me"], [op |-> "allAuthors"]}
    \cup {[op |-> "allBooks", genre |-> g] : g \in {Empty, Fantasy}}
    \cup {[op |-> "addBook", title |-> t, author |-> a, published |-> 1937,
           genres |-> <<Fantasy>>] : t \in Titles, a \in BookAuthors}
    \cup {[op |-> "editAuthor", name |-> a, setBornTo |-> 1892] : a \in AuthorNames}
    \cup {[op |-> "createUser", username |-> u, favouriteGenre |-> g] :
            <<u, g>> \in {<<Ada, Fantasy>>, <<Ab, Fantasy>>, <<Ada, Empty>>}}
    \cup {[op |-> "login", username |-> u, password |-> p] :
            <<u, p>> \in {<<Ada, "secret">>, <<Ada, "wrong">>, <<Ab, "secret">>}}

\* The operations that construct documents.
Constructs(call) == call.op \in {"addBook", "createUser"}

Idle ==
    [pc |-> "idle", auth |-> NoHeader, currentUser |-> NullDoc, call |-> NoCall,
     n |-> Null, author |-> NullDoc, created |-> FALSE, book |-> NullDoc,
     res |-> Pending]

Init ==
    /\ users = {}
    /\ authors = {}
    /\ books = {}
    /\ req = [r \in Req |-> Idle]
    /\ nextId = 1
    /\ issued = {}
    /\ subscribers = {}
    /\ delivered = [s \in Subs |-> {}]

db == <<users, authors, books>>

\* A request arrives with its Authorization header. The slots are
\* interchangeable, so a request takes the lowest free one.
Receive(r) ==
    /\ req[r].pc = "idle"
    /\ \A q \in Req : q < r => req[q].pc # "idle"
    /\ \E auth \in Headers :
         req' = [req EXCEPT ![r] = [Idle EXCEPT !.pc = "context", !.auth = auth]]
    /\ UNCHANGED <<db, nextId, issued, subscribers, delivered>>

\* context: async function ({ req }). An error thrown here fails the request
\* before any resolver runs.
BuildContext(r) ==
    /\ req[r].pc = "context"
    /\ req' = [req EXCEPT ![r] =
         IF ContextThrows(req[r].auth)
         THEN [@ EXCEPT !.pc = "done", !.res = Rethrow("JsonWebTokenError")]
         ELSE [@ EXCEPT !.pc = "dispatch", !.currentUser = ContextUser(req[r].auth)]]
    /\ UNCHANGED <<db, nextId, issued, subscribers, delivered>>

\* The operation of the request is handed to its resolver with the context;
\* a resolver sees the context and never the header. The identity of the
\* documents the resolver may construct is reserved here, one per request:
\* the Author and the Book of one addBook live in different collections.
Dispatch(r) ==
    /\ req[r].pc = "dispatch"
    /\ \E call \in Calls :
         /\ Constructs(call) => nextId <= MaxDocs
         /\ req' = [req EXCEPT ![r] =
              [@ EXCEPT !.pc = "resolve", !.auth = NoHeader, !.call = call,
                        !.n = IF Constructs(call) THEN nextId ELSE Null]]
         /\ nextId' = IF Constructs(call) THEN nextId + 1 ELSE nextId
    /\ UNCHANGED <<db, issued, subscribers, delivered>>

Resolving(r, op) == req[r].pc = "resolve" /\ req[r].call.op = op

Finish(r, res) == req' = [req EXCEPT ![r] = [@ EXCEPT !.pc = "done", !.res = res]]

\* Query.me
Me(r) ==
    /\ Resolving(r, "me")
    /\ Finish(r, Ok(req[r].currentUser))
    /\ UNCHANGED <<db, nextId, issued, subscribers, delivered>>

\* Query.allBooks
AllBooks(r) ==
    /\ Resolving(r, "allBooks")
    /\ Finish(r, Ok(IF Len(req[r].call.genre) = 0
                    THEN books
                    ELSE {b \in books :
                            \E i \in DOMAIN b.genres : b.genres[i] = req[r].call.genre}))
    /\ UNCHANGED <<db, nextId, issued, subscribers, delivered>>

\* Query.allAuthors
AllAuthors(r) ==
    /\ Resolving(r, "allAuthors")
    /\ Finish(r, Ok(authors))
    /\ UNCHANGED <<db, nextId, issued, subscribers, delivered>>

\* checkIfLoggedIn(context)
LoggedIn(context) == context.currentUser # NullDoc

\* Mutation.addBook up to its first await: the guard, then the query
\* Author.findOne is sent.
AddBookGuard(r) ==
    /\ Resolving(r, "addBook")
    /\ req' = [req EXCEPT ![r] =
         IF LoggedIn(req[r])
         THEN [@ EXCEPT !.pc = "findAuthor"]
         ELSE [@ EXCEPT !.pc = "done", !.res = ThrowNew("AuthenticationError", NullDoc)]]
    /\ UNCHANGED <<db, nextId, issued, subscribers, delivered>>

\* let author = await Author.findOne({ name: args.author }); when there is
\* none, new Author({ name: args.author }) is constructed and its save begins.
AddBookFindOne(r) ==
    /\ req[r].pc = "findAuthor"
    /\ \E found \in FindOne({a \in authors : a.name = req[r].call.author}) :
         req' = [req EXCEPT ![r] =
            IF found = NullDoc
            THEN [@ EXCEPT !.pc = "validateAuthor", !.created = TRUE,
                           !.author = [id |-> req[r].n, name |-> req[r].call.author,
                                       born |-> Null]]
            ELSE [@ EXCEPT !.pc = "newBook", !.author = found]]
    /\ UNCHANGED <<db, nextId, issued, subscribers, delivered>>

\* await newAuthor.save(), the validation: a failure is caught by the
\* catch block of addBook.
AddBookValidateAuthor(r) ==
    /\ req[r].pc = "validateAuthor"
    /\ req' = [req EXCEPT ![r] =
         IF AuthorValidates(req[r].author)
         THEN [@ EXCEPT !.pc = "insertAuthor"]
         ELSE [@ EXCEPT !.pc = "done", !.res = ThrowNew("UserInputError", req[r].call)]]
    /\ UNCHANGED <<db, nextId, issued, subscribers, delivered>>

\* A save that looks the name up once more and inserts nothing when an
\* Author of that name has appeared (a find-or-create).
AddBookInsertAuthorUnlessNamed(r) ==
    /\ req[r].pc = "insertAuthor"
    /\ authors' = IF \E a \in authors : a.name = req[r].author.name
                  THEN authors
                  ELSE authors \cup {req[r].author}
    /\ req' = [req EXCEPT ![r] = [@ EXCEPT !.pc = "newBook"]]
    /\ UNCHANGED <<users, books, nextId, issued, subscribers, delivered>>

\* await newAuthor.save(), the insertion.
AddBookInsertAuthor(r) ==
    /\ req[r].pc = "insertAuthor"
    /\ authors' = authors \cup {req[r].author}
    /\ req' = [req EXCEPT ![r] = [@ EXCEPT !.pc = "newBook"]]
    /\ UNCHANGED <<users, books, nextId, issued, subscribers, delivered>>

\* new Book({ ...args, author })
NewBook(n, args, author) ==
    [id |-> n, title |-> args.title, published |-> args.published,
     genres |-> args.genres, author |-> author.id]

\* pubsub.publish("BOOK_ADDED", { bookAdded: book }): every client iterating
\* the event receives it.
Publish(book) ==
    delivered' = [s \in Subs |->
                    IF s \in subscribers THEN delivered[s] \cup {book} ELSE delivered[s]]

\* const book = new Book(...); pubsub.publish(...); return book.save();
\* up to the moment the save is sent.
AddBookPublish(r) ==
    /\ req[r].pc = "newBook"
    /\ LET book == NewBook(req[r].n, req[r].call, req[r].author)
       IN /\ Publish(book)
          /\ req' = [req EXCEPT ![r] = [@ EXCEPT !.pc = "saveBook", !.book = book]]
    /\ UNCHANGED <<db, nextId, issued, subscribers>>

\* A rejected Book that takes the Author the call created with it.
AddBookSaveBookRollingBack(r) ==
    /\ req[r].pc = "saveBook"
    /\ IF BookValidates(req[r].book)
       THEN /\ books' = books \cup {req[r].book}
            /\ authors' = authors
            /\ req' = [req EXCEPT ![r] = [@ EXCEPT !.pc = "done", !.res = Ok(req[r].book)]]
       ELSE /\ books' = books
            /\ authors' = IF req[r].created
                          THEN {a \in authors : a.id # req[r].author.id}
                          ELSE authors
            /\ req' = [req EXCEPT ![r] =
                         [@ EXCEPT !.pc = "done", !.res = Rethrow("ValidationError")]]
    /\ UNCHANGED <<users, nextId, issued, subscribers, delivered>>

\* book.save(): the promise is returned from inside the try block without
\* an await, so its rejection is the rejection of addBook and never reaches
\* the catch block.
AddBookSaveBook(r) ==
    /\ req[r].pc = "saveBook"
    /\ IF BookValidates(req[r].book)
       THEN /\ books' = books \cup {req[r].book}
            /\ authors' = authors
            /\ Finish(r, Ok(req[r].book))
       ELSE /\ books' = books
            /\ authors' = authors
            /\ Finish(r, Rethrow("ValidationError"))
    /\ UNCHANGED <<users, nextId, issued, subscribers, delivered>>

\* Mutation.editAuthor: the guard; findOneAndUpdate returns a query, which
\* is an object, so that `if (!author)` never holds and the query is returned.
EditAuthorGuard(r) ==
    /\ Resolving(r, "editAuthor")
    /\ req' = [req EXCEPT ![r] =
         IF LoggedIn(req[r])
         THEN [@ EXCEPT !.pc = "findOneAndUpdate"]
         ELSE [@ EXCEPT !.pc = "done", !.res = ThrowNew("AuthenticationError", NullDoc)]]
    /\ UNCHANGED <<db, nextId, issued, subscribers, delivered>>

\* The options editAuthor passes to findOneAndUpdate.
EditAuthorOptions == [returnNewDocument |-> TRUE]

\* Model.findOneAndUpdate resolves to the document as it was before the
\* update unless its option "new" is set.
FindOneAndUpdateResult(before, after, options) ==
    IF "new" \in DOMAIN options /\ options.new THEN after ELSE before

\* The returned query runs: Author.findOneAndUpdate({ name }, { born }, options).
EditAuthorExec(r) ==
    /\ req[r].pc = "findOneAndUpdate"
    /\ \E found \in FindOne({a \in authors : a.name = req[r].call.name}) :
         IF found = NullDoc
         THEN /\ authors' = authors
              /\ Finish(r, Ok(NullDoc))
         ELSE LET updated == [found EXCEPT !.born = req[r].call.setBornTo]
              IN /\ authors' = (authors \ {found}) \cup {updated}
                 /\ Finish(r, Ok(FindOneAndUpdateResult(found, updated, EditAuthorOptions)))
    /\ UNCHANGED <<users, books, nextId, issued, subscribers, delivered>>

\* Mutation.createUser: new User({ username, favouriteGenre }), then
\* user.save().catch(...).
CreateUser(r) ==
    /\ Resolving(r, "createUser")
    /\ LET user == [id |-> req[r].n, username |-> req[r].call.username,
                    favouriteGenre |-> req[r].call.favouriteGenre]
       IN IF UserValidates(user)
          THEN /\ users' = users \cup {user}
               /\ Finish(r, Ok(user))
          ELSE /\ users' = users
               /\ Finish(r, ThrowNew("UserInputError", req[r].call))
    /\ UNCHANGED <<authors, books, nextId, issued, subscribers, delivered>>

\* Mutation.login
Login(r) ==
    /\ Resolving(r, "login")
    /\ \E user \in FindOne({u \in users : u.username = req[r].call.username}) :
         IF user = NullDoc \/ req[r].call.password # "secret"
         THEN /\ issued' = issued
              /\ Finish(r, ThrowNew("UserInputError", NullDoc))
         ELSE LET token == JwtSign([username |-> user.username, id |-> user.id],
                                   JWT_SECRET)
              IN /\ issued' = issued \cup {token}
                 /\ Finish(r, Ok(token))
    /\ UNCHANGED <<db, nextId, subscribers, delivered>>

\* Subscription.bookAdded: a client starts iterating BOOK_ADDED.
Subscribe(s) ==
    /\ s \notin subscribers
    /\ subscribers' = subscribers \cup {s}
    /\ UNCHANGED <<db, req, nextId, issued, delivered>>

\* The response is sent.
Respond(r) ==
    /\ req[r].pc = "done"
    /\ req' = [req EXCEPT ![r] = Idle]
    /\ UNCHANGED <<db, nextId, issued, subscribers, delivered>>

Next ==
    \/ \E r \in Req :
         \/ Receive(r)
         \/ BuildContext(r)
         \/ Dispatch(r)
         \/ Me(r)
         \/ AllBooks(r)
         \/ AllAuthors(r)
         \/ AddBookGuard(r)
         \/ AddBookFindOne(r)
         \/ AddBookValidateAuthor(r)
         \/ AddBookInsertAuthor(r)
         \/ AddBookPublish(r)
         \/ AddBookSaveBook(r)
         \/ EditAuthorGuard(r)
         \/ EditAuthorExec(r)
         \/ CreateUser(r)
         \/ Login(r)
         \/ Respond(r)
    \/ \E s \in Subs : Subscribe(s)

Spec == Init /\ [][Next]_vars

\* ------------------------------------------------------------ properties
Done(r, op) == req[r].pc = "done" /\ req[r].call.op = op

\* The context of request r has just been built (or has failed to be): the
\* header is still at hand and no operation has been dispatched.
ContextBuilt(r) == req[r].pc \in {"dispatch", "done"} /\ req[r].call = NoCall

BearerSpellings ==
    { <<"B", "e", "a", "r", "e", "r", " ">>,
      <<"b", "e", "a", "r", "e", "r", " ">>,
      <<"B", "E", "A", "R", "E", "R", " ">> }

\* No Authorization header, or one that does not begin with "Bearer ".
NotBearer(auth) == ~auth.present \/ auth.head \notin BearerSpellings

\* A bearer token of the server's secret whose id is the id of no User.
TokenOfNoUser(auth) ==
    /\ auth.present
    /\ auth.head \in BearerSpellings
    /\ "sig" \in DOMAIN auth.rest
    /\ auth.rest.sig = JWT_SECRET
    /\ ~(\E u \in users : u.id = auth.rest.id)

\* A bearer token that is malformed or signed with another secret.
UnverifiableToken(auth) ==
    /\ auth.present
    /\ auth.head \in BearerSpellings
    /\ ~("sig" \in DOMAIN auth.rest /\ auth.rest.sig = JWT_SECRET)

\* C1: a request without a valid bearer token (no header, a header of another
\* scheme, a token of no user) gets a context with no current user, and an
\* addBook under such a context fails with the authentication error
\* (AuthenticationError, the NotAuthenticated of the taxonomy) and persists
\* no Book.
C1_AddBookWithoutTokenIsNotAuthenticated ==
    \A r \in Req :
        /\ (ContextBuilt(r) /\ (NotBearer(req[r].auth) \/ TokenOfNoUser(req[r].auth)))
             => (req[r].pc = "dispatch" /\ req[r].currentUser = NullDoc)
        /\ (Done(r, "addBook") /\ req[r].currentUser = NullDoc)
             => /\ req[r].res.status = "error"
                /\ req[r].res.error = "AuthenticationError"
                /\ ~(\E b \in books : b.id = req[r].n)

\* C2: no two persisted Users have the same username.
C2_UsernamesAreUnique ==
    \A u, v \in users : u.username = v.username => u = v

\* C3: the editAuthor query resolves to the Author of that name with born
\* equal to setBornTo when an Author of that name exists, and to null when
\* none does.
C3_EditAuthorReturnsUpdatedAuthor ==
    [][\A r \in Req :
         (req[r].pc = "findOneAndUpdate" /\ req'[r].pc = "done")
         => IF \E a \in authors : a.name = req[r].call.name
            THEN /\ req'[r].res.status = "ok"
                 /\ req'[r].res.value \in authors'
                 /\ req'[r].res.value.name = req[r].call.name
                 /\ req'[r].res.value.born = req[r].call.setBornTo
            ELSE req'[r].res = Ok(NullDoc)]_vars

\* C4 as stated: every addBook call that found no Author of the name ends
\* with exactly one new Author persisted, the new Book persisted and
\* referencing it, and a bookCount of 1 for that Author.
C4_EveryCallWithUnseenAuthor ==
    [][\A r \in Req :
         (req[r].created /\ req[r].pc # "done" /\ req'[r].pc = "done")
         => /\ Cardinality({a \in authors' : a.id = req[r].author.id}) = 1
            /\ \E b \in books' : b.id = req[r].n /\ b.author = req[r].author.id
            /\ BookCount(req[r].author)' = 1]_vars

\* C4 amended: every addBook call that found no Author of the name and
\* returns its Book has persisted exactly one new Author, of that name, and
\* the Book it returns is persisted and references that Author; the bookCount
\* of the Author computed as the call returns is at least 1, and is 1 unless
\* another call has attached a Book to that Author in the meantime.
C4_SuccessfulCallWithUnseenAuthor ==
    [][\A r \in Req :
         (req[r].created /\ req[r].pc = "saveBook" /\ req'[r].pc = "done"
          /\ req'[r].res.status = "ok")
         => /\ Cardinality({a \in authors' : a.id = req[r].author.id}) = 1
            /\ \A a \in authors' :
                 a.id = req[r].author.id => a.name = req[r].call.author
            /\ req'[r].res.value \in books'
            /\ req'[r].res.value \notin books
            /\ req'[r].res.value.author = req[r].author.id
            /\ BookCount(req[r].author)' >= 1
            /\ (\A b \in books : b.author # req[r].author.id)
                 => BookCount(req[r].author)' = 1]_vars

C4_Witness ==
    \E r \in Req :
        /\ Done(r, "addBook")
        /\ req[r].created
        /\ req[r].res.status = "ok"
        /\ req[r].res.value \in books
        /\ BookCount(req[r].author) = 1

\* C5: a request with no Authorization header, or with one that does not
\* begin with "Bearer " in any letter case, gets a context with no current
\* user and no error; under a context with no current user me resolves to
\* null, and allBooks and allAuthors resolve to their results.
C5_AnonymousContext ==
    \A r \in Req :
        /\ (ContextBuilt(r) /\ NotBearer(req[r].auth))
             => /\ req[r].pc = "dispatch"
                /\ req[r].res.status # "error"
                /\ req[r].currentUser = NullDoc
        /\ (Done(r, "me") /\ req[r].currentUser = NullDoc) => req[r].res = Ok(NullDoc)
        /\ (req[r].currentUser = NullDoc /\ Done(r, "allBooks"))
             => (req[r].res.status = "ok" /\ req[r].res.value \subseteq books)
        /\ (req[r].currentUser = NullDoc /\ Done(r, "allAuthors"))
             => req[r].res.status = "ok"

C5_Witness ==
    \E r, q \in Req :
        /\ req[r].pc = "dispatch"
        /\ req[r].auth.present
        /\ NotBearer(req[r].auth)
        /\ req[r].currentUser = NullDoc
        /\ Done(q, "me")
        /\ req[q].currentUser = NullDoc
        /\ req[q].res = Ok(NullDoc)

\* C6: an authenticated addBook that fails, fails with the input error
\* (UserInputError, the InvalidInput of the taxonomy) carrying its arguments.
C6_AddBookFailsWithInvalidInput ==
    \A r \in Req :
        (Done(r, "addBook") /\ req[r].currentUser # NullDoc
         /\ req[r].res.status = "error")
        => /\ req[r].res.error = "UserInputError"
           /\ req[r].res.invalidArgs = req[r].call

\* C7: a request with a malformed or unverifiable bearer token gets a
\* context with no current user, and its operation is dispatched.
C7_UnverifiableTokenIsAnonymous ==
    \A r \in Req :
        (ContextBuilt(r) /\ UnverifiableToken(req[r].auth))
        => (req[r].pc = "dispatch" /\ req[r].currentUser = NullDoc)

\* Call r found no Author of the name and has completed the save of the
\* Author it constructed.
SavedOwnAuthor(r) ==
    /\ req[r].call.op = "addBook"
    /\ req[r].created
    /\ \/ req[r].pc \in {"newBook", "saveBook"}
       \/ req[r].pc = "done" /\ req[r].book # NullDoc

C9_AuthorStaysWhenBookFails ==
    [][\A r \in Req :
         (req[r].pc = "saveBook" /\ req'[r].pc = "done"
          /\ req'[r].res.status = "error")
         => /\ books' = books
            /\ authors' = authors
            /\ req[r].created => \E a \in authors' : a.id = req[r].author.id]_vars

C9_Witness ==
    \E r \in Req :
        /\ Done(r, "addBook")
        /\ req[r].created
        /\ req[r].book # NullDoc
        /\ req[r].res.status = "error"
        /\ \E a \in authors : a.id = req[r].author.id
        /\ ~(\E b \in books : b.id = req[r].n)

\* C10: every Book a subscriber has received is persisted, or is the Book of
\* a call whose save is still under way.
C10_DeliveredBooksArePersisted ==
    \A s \in Subs : \A b \in delivered[s] :
        \/ b \in books
        \/ \E r \in Req : req[r].pc = "saveBook" /\ req[r].book = b

====
